---- MODULE Spec2Model ----
(***************************************************************************)
(* Model of ksana-vision: the BLIP camera captioning engine                *)
(* (caption_engine.py, camera_manager.py, blip_model.py), its two entry    *)
(* points (blip_camera_main.py, dual_screen_demo.py) and the dual-window   *)
(* vertical text display (dual_screen_display.py).                         *)
(*                                                                         *)
(* A caption text is a sequence of one-character strings.  A buffer entry  *)
(* is a record [id, text]: id is the ordinal of the add_caption call that  *)
(* stored it, so that two adds of the same text are distinct instances.    *)
(***************************************************************************)
EXTENDS Integers, Sequences, FiniteSets, TLC

VARIABLES
    \* ---- DualScreenDisplay ----
    window_width,            \* self.window_width
    window_height,           \* self.window_height
    window1_captions,        \* self.window1_captions (primary buffer)
    window2_captions,        \* self.window2_captions (overflow buffer)
    window_capacity,         \* self.window_capacity
    chars_per_column,        \* self.chars_per_column (None or Some(n))
    text_image,              \* what cv2.imshow last put in each text window
    column_limit,            \* local chars_per_column of each window's last render
    history,                 \* every text passed to add_caption, in order
    \* ---- CaptionEngine, CameraManager, BLIPModelManager, entry point ----
    entry,                   \* "main", "demo", or "none" (display driven directly)
    dual_screen,             \* engine.dual_screen
    show_camera,             \* engine.show_camera
    interval,                \* engine.interval
    pc,                      \* position of the entry point / run loop
    model_loaded,            \* blip_manager.processor and .model are set
    cap,                     \* camera_manager.cap
    ret,                     \* result of the last read_frame
    caption,                 \* local `caption` of run()
    last_generated_caption,  \* engine.last_generated_caption (None if absent)
    last_caption_time,       \* local last_caption_time of run()
    current_time,            \* local current_time of run()
    now,                     \* the wall clock, time.time()
    cv_windows,              \* the cv2 windows that exist
    camera_shown,            \* None, or Some(caption passed to the overlay of the last frame shown)
    cm_current_caption,      \* camera_manager.current_caption
    stop_reason,             \* which message the loop printed when it ended
    exit_status,             \* process exit status: None until exit, then Some(code)
    cleanup_calls,           \* number of calls of CaptionEngine.cleanup
    last_invocation          \* current_time of the latest captioner invocation

display_vars == <<window_width, window_height, window1_captions, window2_captions,
                  window_capacity, chars_per_column, text_image, column_limit,
                  history>>

engine_vars == <<entry, dual_screen, show_camera, interval, pc, model_loaded, cap,
                 ret, caption, last_generated_caption, last_caption_time,
                 current_time, now, cv_windows, camera_shown, cm_current_caption,
                 stop_reason, exit_status, cleanup_calls, last_invocation>>

vars == <<display_vars, engine_vars>>

(***************************************************************************)
(* Class-level display settings                                            *)
(***************************************************************************)
WINDOW_WIDTH == 2560
WINDOW_HEIGHT == 1440
FONT_SIZE == 24
COLUMN_WIDTH == 25
CHAR_SPACING == 2
avg_caption_length == 30

(***************************************************************************)
(* Bounds of the model                                                     *)
(***************************************************************************)
MaxAdds == 7         \* add_caption calls per behaviour of SpecDisplay
MaxListLen == 3      \* length of the lists drawn for SpecLayout
MaxInterval == 2     \* largest --interval given to the main script
MaxTime == 5         \* seconds the clock advances during a run

Max(a, b) == IF a >= b THEN a ELSE b
Min(a, b) == IF a <= b THEN a ELSE b

RECURSIVE Rep(_, _)
Rep(s, n) == IF n <= 0 THEN <<>> ELSE s \o Rep(s, n - 1)

(***************************************************************************)
(* Python list operations used by the display                              *)
(***************************************************************************)
\* captions[-m:]
PySuffix(s, m) ==
    LET start == IF m > 0 THEN Max(Len(s) - m, 0)
                 ELSE IF m = 0 THEN 0
                 ELSE Min(0 - m, Len(s))
    IN  SubSeq(s, start + 1, Len(s))

Reversed(s) == [i \in 1..Len(s) |-> s[Len(s) + 1 - i]]

\* caption.replace(" ", "-")
ReplaceSpaces(text) == [i \in 1..Len(text) |-> IF text[i] = " " THEN "-" ELSE text[i]]

\* An optional value: None, or Some(x)
None == <<>>
Some(x) == <<x>>

\* x or default
OrDefault(arg, default) == IF arg = None \/ arg = Some(0) THEN default ELSE arg[1]

(***************************************************************************)
(* DualScreenDisplay: layout                                               *)
(***************************************************************************)
char_height == FONT_SIZE + CHAR_SPACING

max_chars_per_column(h) == (h - 40) \div char_height

max_columns(w) == (w - 40) \div COLUMN_WIDTH

\* chars_per_column as the render computes it (lines 184-187); the drawing
\* loop does not read it.
effective_chars_per_column(cpc, h) ==
    IF cpc = None THEN max_chars_per_column(h)
    ELSE Min(cpc[1], max_chars_per_column(h))

visible_captions(captions, w) ==
    IF Len(captions) > max_columns(w) THEN PySuffix(captions, max_columns(w))
    ELSE captions

\* a for loop over items 1..n with a break, hits being the items at which the
\* break test is true: the index of the first of them, or n + 1 when the loop
\* runs to its end
FirstBreak(n, hits) ==
    IF hits = {} THEN n + 1 ELSE CHOOSE k \in hits : \A m \in hits : k <= m

\* a variant of DrawChars that also stops a character ending on the margin
DrawChars_stops_on_margin(chars, h) ==
    LET char_y(j) == 20 + ((j - 1) * char_height)
        stop == FirstBreak(Len(chars),
                    {j \in 1..Len(chars) : char_y(j) + char_height >= h - 20})
    IN  [j \in 1..(stop - 1) |-> [char |-> chars[j], y |-> char_y(j)]]

\* the inner loop: the characters of one column, top to bottom, until the
\* bottom margin (j is enumerate's index plus one)
DrawChars(chars, h) ==
    LET char_y(j) == 20 + ((j - 1) * char_height)
        stop == FirstBreak(Len(chars),
                    {j \in 1..Len(chars) : char_y(j) + char_height > h - 20})
    IN  [j \in 1..(stop - 1) |-> [char |-> chars[j], y |-> char_y(j)]]

\* the outer loop: one column per caption, newest first, until x < 20
\* (the k-th item is drawn with current_column = k - 1)
DrawColumns(rev, w, h) ==
    LET column_x(k) == (w - 20) - ((k - 1) * COLUMN_WIDTH)
        stop == FirstBreak(Len(rev), {k \in 1..Len(rev) : column_x(k) < 20})
    IN  [k \in 1..(stop - 1) |->
            [x |-> column_x(k), src |-> rev[k],
             glyphs |-> DrawChars(ReplaceSpaces(rev[k].text), h)]]

\* a variant of update_single_window whose columns stop at chars_per_column
update_single_window_limited(captions, w, h, cpc) ==
    LET limit == Max(effective_chars_per_column(cpc, h), 0)
        cols == DrawColumns(Reversed(visible_captions(captions, w)), w, h)
    IN  [columns |-> IF captions /= <<>>
                     THEN [k \in 1..Len(cols) |->
                             [cols[k] EXCEPT !.glyphs =
                                 SubSeq(cols[k].glyphs, 1, Min(Len(cols[k].glyphs), limit))]]
                     ELSE <<>>,
         footer |-> Len(captions)]

\* the image one text window receives: the columns drawn and the footer count;
\* cpc is self.chars_per_column, from which the render computes its local
\* chars_per_column (recorded in column_limit) that neither loop reads
update_single_window(captions, w, h, cpc) ==
    [columns |-> IF captions /= <<>>
                 THEN DrawColumns(Reversed(visible_captions(captions, w)), w, h)
                 ELSE <<>>,
     footer |-> Len(captions)]

\* the local chars_per_column after a render of `captions`: it is assigned
\* only inside `if captions:`
local_chars_per_column(captions, h, cpc, before) ==
    IF captions /= <<>> THEN Some(effective_chars_per_column(cpc, h)) ELSE before

update_text_display(w1, w2, w, h, cpc) ==
    [i \in {0, 1} |-> update_single_window(IF i = 0 THEN w1 ELSE w2, w, h, cpc)]

NoImage == [columns |-> <<>>, footer |-> -1]

(***************************************************************************)
(* DualScreenDisplay: caption buffers                                      *)
(***************************************************************************)
\* a variant of calculate_window_capacity that divides the average by 10
calculate_window_capacity_by_10(w) ==
    max_columns(w) * Max(1, avg_caption_length \div 10)

calculate_window_capacity(w) ==
    max_columns(w) * Max(1, avg_caption_length \div 20)

capacity_for(cap0, w) == IF cap0 = 0 THEN calculate_window_capacity(w) ELSE cap0

\* variants of add_to_buffers with one slip each
add_to_buffers_copies_new(w1, w2, capacity, c) ==
    LET a1 == Append(w1, c)
    IN  IF Len(a1) > capacity
        THEN LET a2 == Append(w2, c)
             IN  [w1 |-> Tail(a1),
                  w2 |-> IF Len(a2) > capacity THEN Tail(a2) ELSE a2]
        ELSE [w1 |-> a1, w2 |-> w2]

add_to_buffers_pops_newest(w1, w2, capacity, c) ==
    LET a1 == Append(w1, c)
    IN  IF Len(a1) > capacity
        THEN LET a2 == Append(w2, a1[Len(a1)])
             IN  [w1 |-> SubSeq(a1, 1, Len(a1) - 1),
                  w2 |-> IF Len(a2) > capacity THEN Tail(a2) ELSE a2]
        ELSE [w1 |-> a1, w2 |-> w2]

add_to_buffers_evicts_early(w1, w2, capacity, c) ==
    LET a1 == Append(w1, c)
    IN  IF Len(a1) > capacity
        THEN LET a2 == Append(w2, Head(a1))
             IN  [w1 |-> Tail(a1),
                  w2 |-> IF Len(a2) >= capacity THEN Tail(a2) ELSE a2]
        ELSE [w1 |-> a1, w2 |-> w2]

add_to_buffers_prepends(w1, w2, capacity, c) ==
    LET a1 == Append(w1, c)
    IN  IF Len(a1) > capacity
        THEN LET a2 == <<Head(a1)>> \o w2
             IN  [w1 |-> Tail(a1),
                  w2 |-> IF Len(a2) > capacity THEN Tail(a2) ELSE a2]
        ELSE [w1 |-> a1, w2 |-> w2]

add_to_buffers(w1, w2, capacity, c) ==
    LET a1 == Append(w1, c)
    IN  IF Len(a1) > capacity
        THEN LET overflow_caption == Head(a1)
                 a2 == Append(w2, overflow_caption)
             IN  [w1 |-> Tail(a1),
                  w2 |-> IF Len(a2) > capacity THEN Tail(a2) ELSE a2]
        ELSE [w1 |-> a1, w2 |-> w2]

\* display.add_caption(text): the effect on the display's variables
add_caption(text) ==
    LET capacity == capacity_for(window_capacity, window_width)
        c == [id |-> Len(history) + 1, text |-> text]
        b == add_to_buffers(window1_captions, window2_captions, capacity, c)
    IN  /\ window_capacity' = capacity
        /\ window1_captions' = b.w1
        /\ window2_captions' = b.w2
        /\ history' = Append(history, text)
        /\ text_image' = update_text_display(b.w1, b.w2, window_width, window_height,
                                             chars_per_column)
        /\ column_limit' = [i \in {0, 1} |->
               local_chars_per_column(IF i = 0 THEN b.w1 ELSE b.w2, window_height,
                                      chars_per_column, column_limit[i])]
        /\ UNCHANGED <<window_width, window_height, chars_per_column>>

\* DualScreenDisplay.__init__(window_width, window_height)
InitDisplay(width_arg, height_arg) ==
    /\ window_width = OrDefault(width_arg, WINDOW_WIDTH)
    /\ window_height = OrDefault(height_arg, WINDOW_HEIGHT)
    /\ window1_captions = <<>>
    /\ window2_captions = <<>>
    /\ window_capacity = 0
    /\ chars_per_column = None
    /\ text_image = [i \in {0, 1} |-> NoImage]
    /\ column_limit = [i \in {0, 1} |-> None]
    /\ history = <<>>

\* the engine's variables when the display is driven on its own
NoEngine ==
    /\ entry = "none"
    /\ dual_screen = TRUE
    /\ show_camera = FALSE
    /\ interval = 0
    /\ pc = "none"
    /\ model_loaded = FALSE
    /\ cap = "None"
    /\ ret = "unset"
    /\ caption = <<>>
    /\ last_generated_caption = None
    /\ last_caption_time = 0
    /\ current_time = 0
    /\ now = 0
    /\ cv_windows = {"Camera Feed", "Text Window 1", "Text Window 2"}
    /\ camera_shown = None
    /\ cm_current_caption = <<>>
    /\ stop_reason = "none"
    /\ exit_status = None
    /\ cleanup_calls = 0
    /\ last_invocation = -1

(***************************************************************************)
(* SpecDisplay: a DualScreenDisplay built with any window size and fed     *)
(* captions through add_caption.                                           *)
(***************************************************************************)
WidthArgs == {None, Some(30), Some(50), Some(65), Some(90), Some(115)}
HeightArgs == {None, Some(92)}
DisplayTexts == {<<"A">>, <<"B">>, <<"C">>, <<"D">>}

InitDisplayOnly ==
    /\ \E wa \in WidthArgs, ha \in HeightArgs : InitDisplay(wa, ha)
    /\ NoEngine

AddCaption ==
    /\ Len(history) < MaxAdds
    /\ \E text \in DisplayTexts : add_caption(text)
    /\ UNCHANGED engine_vars

NextDisplay == AddCaption

SpecDisplay == InitDisplayOnly /\ [][NextDisplay]_vars

(***************************************************************************)
(* Claims about the caption buffers (checked under SpecDisplay)            *)
(***************************************************************************)
Ids(buf) == {buf[i].id : i \in 1..Len(buf)}
Texts(buf) == [i \in 1..Len(buf) |-> buf[i].text]
Last(s) == s[Len(s)]

\* C1: in dual-buffer mode with capacity >= 1, after any sequence of
\* add_caption calls each buffer holds at most capacity entries, the two
\* together at most 2 * capacity, and no caption instance is in both buffers.
C1_DualBufferBounded ==
    window_capacity >= 1 =>
        /\ Len(window1_captions) <= window_capacity
        /\ Len(window2_captions) <= window_capacity
        /\ Len(window1_captions) + Len(window2_captions) <= 2 * window_capacity
        /\ Ids(window1_captions) \cap Ids(window2_captions) = {}
        /\ Cardinality(Ids(window1_captions)) = Len(window1_captions)
        /\ Cardinality(Ids(window2_captions)) = Len(window2_captions)

\* C1 witness: capacity 2, both buffers full, the secondary has evicted once.
C1_Witness ==
    /\ window_capacity = 2
    /\ Len(history) = 5
    /\ Len(window1_captions) = 2
    /\ Len(window2_captions) = 2

\* C2: with capacity >= 1 the primary buffer never holds more than capacity
\* entries after add_caption returns, and it holds exactly the most recently
\* added min(n, capacity) captions, in insertion order. 
C2_MostRecentRetained ==
    window_capacity >= 1 =>
        LET n == Len(history)
            k == Min(n, window_capacity)
        IN  /\ Len(window1_captions) <= window_capacity
            /\ Texts(window1_captions) = SubSeq(history, n - k + 1, n)
            /\ \A i \in 1..Len(window1_captions) : window1_captions[i].id = n - k + i

\* C2 witness: capacity 3, adds A, B, C, D leave [B, C, D].
C2_Witness ==
    /\ window_capacity = 3
    /\ history = << <<"A">>, <<"B">>, <<"C">>, <<"D">> >>
    /\ Texts(window1_captions) = << <<"B">>, <<"C">>, <<"D">> >>

\* C3: an add that makes the primary exceed capacity removes exactly the
\* primary's oldest entry and appends it to the tail of the secondary, which
\* then drops its own oldest entry only if it now exceeds capacity; an add
\* that does not exceed capacity leaves the secondary unchanged.  With
\* capacity 2, adds A, B, C give primary [B, C] and secondary [A].
C3_AddStep ==
    (history' /= history /\ window_capacity' >= 1) =>
        IF Len(window1_captions) + 1 > window_capacity'
        THEN LET oldest == Head(window1_captions)
             IN  /\ Len(window1_captions') = Len(window1_captions)
                 /\ SubSeq(window1_captions', 1, Len(window1_captions) - 1)
                        = Tail(window1_captions)
                 /\ Len(window1_captions') >= 1
                 /\ Last(window1_captions').id = Len(history')
                 /\ ~(oldest.id \in Ids(window1_captions'))
                 /\ Len(window2_captions') >= 1
                 /\ Last(window2_captions') = oldest
                 /\ IF Len(window2_captions) + 1 > window_capacity'
                    THEN window2_captions' = Append(Tail(window2_captions), oldest)
                    ELSE window2_captions' = Append(window2_captions, oldest)
        ELSE /\ window2_captions' = window2_captions
             /\ Len(window1_captions') = Len(window1_captions) + 1

C3_Example ==
    (window_capacity = 2 /\ history = << <<"A">>, <<"B">>, <<"C">> >>) =>
        /\ Texts(window1_captions) = << <<"B">>, <<"C">> >>
        /\ Texts(window2_captions) = << <<"A">> >>

C3_OverflowMoves == [][C3_AddStep]_vars /\ []C3_Example

\* C3 witness: capacity 2 after adds A, B, C: primary [B, C], secondary [A].
C3_Witness ==
    /\ window_capacity = 2
    /\ history = << <<"A">>, <<"B">>, <<"C">> >>
    /\ Texts(window1_captions) = << <<"B">>, <<"C">> >>
    /\ Texts(window2_captions) = << <<"A">> >>


(***************************************************************************)
(* SpecLayout: _update_single_window as a function of its inputs: any      *)
(* caption list, any canvas size.                                          *)
(***************************************************************************)
ACatSitting == <<"a", " ", "c", "a", "t", " ", "s", "i", "t", "t", "i", "n", "g">>
LongText == Rep(<<"x", "y", " ">>, 20)
LayoutTexts == {<<>>, <<"a", " ", "b">>, ACatSitting, LongText}
LayoutWidths == {30, 50, 65, 90, WINDOW_WIDTH}
LayoutHeights == {30, 66, 92, WINDOW_HEIGHT}

\* the list built from a sequence of texts, instance i being the i-th element
AsEntries(texts) == [i \in 1..Len(texts) |-> [id |-> i, text |-> texts[i]]]

RECURSIVE SeqsUpTo(_, _)
SeqsUpTo(S, n) ==
    IF n = 0 THEN {<<>>}
    ELSE LET shorter == SeqsUpTo(S, n - 1)
         IN  shorter \cup {Append(q, x) : q \in shorter, x \in S}

\* a list of 150 captions, as in the spec's example
BigList == [i \in 1..150 |-> [id |-> i, text |-> IF i % 2 = 0 THEN ACatSitting
                                                  ELSE <<"a", " ", "b">>]]

LayoutLists == {AsEntries(q) : q \in SeqsUpTo(LayoutTexts, MaxListLen)} \cup {BigList}

InitLayout ==
    /\ window_width \in LayoutWidths
    /\ window_height \in LayoutHeights
    /\ window1_captions \in LayoutLists
    /\ window2_captions \in {<<>>, AsEntries(<<LongText, ACatSitting>>)}
    /\ window_capacity = 0
    /\ chars_per_column = None
    /\ text_image = [i \in {0, 1} |-> NoImage]
    /\ column_limit = [i \in {0, 1} |-> None]
    /\ history = <<>>
    /\ NoEngine

\* _update_single_window(captions, window_index)
UpdateSingleWindow(window_index) ==
    /\ text_image' = [text_image EXCEPT ![window_index] =
           update_single_window(IF window_index = 0 THEN window1_captions
                                ELSE window2_captions,
                                window_width, window_height, chars_per_column)]
    /\ column_limit' = [column_limit EXCEPT ![window_index] =
           local_chars_per_column(IF window_index = 0 THEN window1_captions
                                  ELSE window2_captions,
                                  window_height, chars_per_column, @)]
    /\ UNCHANGED <<window_width, window_height, window1_captions, window2_captions,
                   window_capacity, chars_per_column, history>>
    /\ UNCHANGED engine_vars

UpdateWindow1 == UpdateSingleWindow(0)
UpdateWindow2 == UpdateSingleWindow(1)

\* display.chars_per_column = n: the option set to a limit, or back to None
CharsPerColumnValues == {None, Some(1), Some(2), Some(100)}

SetCharsPerColumn ==
    /\ \E v \in CharsPerColumnValues \ {chars_per_column} : chars_per_column' = v
    /\ UNCHANGED <<window_width, window_height, window1_captions, window2_captions,
                   window_capacity, text_image, column_limit, history>>
    /\ UNCHANGED engine_vars

NextLayout == UpdateWindow1 \/ UpdateWindow2 \/ SetCharsPerColumn

SpecLayout == InitLayout /\ [][NextLayout]_vars

BufferOf(i) == IF i = 0 THEN window1_captions ELSE window2_captions
Rendered(i) == text_image[i] /= NoImage

\* C9: for any caption list and canvas size the layout draws exactly the
\* last min(len, maxColumns) captions, maxColumns = floor((width - 40) /
\* columnWidth): the k-th newest caption at x = width - 20 - k * columnWidth,
\* every drawn column at x >= 20, and no older caption.
C9_VisibleSuffixDrawn ==
    \A i \in {0, 1} : Rendered(i) =>
        LET caps == BufferOf(i)
            maxColumns == (window_width - 40) \div COLUMN_WIDTH
            n == Min(Len(caps), maxColumns)
            cols == text_image[i].columns
        IN  /\ Len(cols) = Max(n, 0)
            /\ \A k \in 0..(Len(cols) - 1) :
                   /\ cols[k + 1].src = caps[Len(caps) - k]
                   /\ cols[k + 1].x = window_width - 20 - (k * COLUMN_WIDTH)
                   /\ cols[k + 1].x >= 20

\* C9 on the spec's example alone: width 2560 gives 100 columns and a list
\* of 150 captions is drawn as its last 100.
C9_Witness ==
    /\ Rendered(0)
    /\ window_width = 2560
    /\ Len(window1_captions) = 150
    /\ Len(text_image[0].columns) = 100
    /\ text_image[0].columns[100].src.id = 51

\* C10: within a column the glyphs drawn are the first min(len(caption),
\* maxCharsPerColumn) characters of the caption with every space replaced by
\* a hyphen, maxCharsPerColumn = floor((height - 40) / (fontSize +
\* charSpacing)); character i is drawn at y = 20 + i * charHeight, ends at or
\* above height - 20, and the excess is dropped, never wrapped into another
\* column (each column draws one caption, each caption at most one column).
C10_ColumnGlyphs ==
    \A i \in {0, 1} : Rendered(i) =>
        LET cols == text_image[i].columns
            charHeight == FONT_SIZE + CHAR_SPACING
            maxCharsPerColumn == (window_height - 40) \div charHeight
        IN  /\ Len(cols) <= Len(BufferOf(i))
            /\ \A a, b \in 1..Len(cols) : a /= b => cols[a].src.id /= cols[b].src.id
            /\ \A c \in 1..Len(cols) :
                   LET text == cols[c].src.text
                       n == Min(Len(text), maxCharsPerColumn)
                       glyphs == cols[c].glyphs
                   IN  /\ Len(glyphs) = Max(n, 0)
                       /\ \A j \in 1..Len(glyphs) :
                              /\ glyphs[j].char = IF text[j] = " " THEN "-" ELSE text[j]
                              /\ glyphs[j].y = 20 + ((j - 1) * charHeight)
                              /\ glyphs[j].y + charHeight <= window_height - 20

maxCharsPerColumnAt1440 == max_chars_per_column(1440) = 53

\* C10 witness: at height 1440 (53 characters per column) "a cat sitting" is
\* drawn as "a-cat-sitting" at y = 20, 46, 72, ... and a 60-character caption
\* is cut to 53 characters.
C10_Witness ==
    /\ Rendered(1)
    /\ window_height = 1440
    /\ maxCharsPerColumnAt1440
    /\ Len(text_image[1].columns) = 2
    /\ LET g == text_image[1].columns[1].glyphs
       IN  /\ [j \in 1..Len(g) |-> g[j].char]
                = <<"a", "-", "c", "a", "t", "-", "s", "i", "t", "t", "i", "n", "g">>
           /\ g[1].y = 20 /\ g[2].y = 46 /\ g[3].y = 72
    /\ Len(text_image[1].columns[2].src.text) = 60
    /\ Len(text_image[1].columns[2].glyphs) = 53

(***************************************************************************)
(* The engine and its entry points                                         *)
(***************************************************************************)
DemoInterval == 3

\* time.time() when run() starts: far beyond any interval
StartTime == 10 * (MaxInterval + DemoInterval)

OkCaption == <<"a", " ", "c", "a", "t">>
ErrorNotLoaded ==
    <<"E", "r", "r", "o", "r", ":", " ", "M", "o", "d", "e", "l", " ",
      "n", "o", "t", " ", "l", "o", "a", "d", "e", "d">>
ErrorGenerating(e) ==
    <<"E", "r", "r", "o", "r", " ", "g", "e", "n", "e", "r", "a", "t", "i", "n", "g", " ",
      "c", "a", "p", "t", "i", "o", "n", ":", " ">> \o e
ExceptionText == <<"o", "o", "m">>

\* a variant of generate_caption without the try/except
generate_caption_raises(loaded, outcome) ==
    IF ~loaded THEN [raised |-> FALSE, text |-> ErrorNotLoaded]
    ELSE IF outcome = "raise" THEN [raised |-> TRUE, text |-> <<>>]
    ELSE [raised |-> FALSE, text |-> OkCaption]

\* BLIPModelManager.generate_caption: outcome says whether inference raises
generate_caption(loaded, outcome) ==
    IF ~loaded THEN [raised |-> FALSE, text |-> ErrorNotLoaded]
    ELSE IF outcome = "raise"
         THEN [raised |-> FALSE, text |-> ErrorGenerating(ExceptionText)]
    ELSE [raised |-> FALSE, text |-> OkCaption]

\* CaptionEngine.initialize: load the model, then open the camera
initialize(model_ok, camera_ok) ==
    [ok |-> model_ok /\ camera_ok,
     model_loaded |-> model_ok,
     cap |-> IF ~model_ok THEN "None"
             ELSE IF camera_ok THEN "opened" ELSE "unopened"]

\* what the entry point does when initialize() returns False
exit_on_init_failure(e) == IF e = "main" THEN 1 ELSE 0

\* CameraManager.show_window
show_window == show_camera /\ ~dual_screen

\* a variant of interval_due that waits for more than the interval
interval_due_strict(t, last, iv) == t - last > iv

\* the test `current_time - last_caption_time >= self.interval`
interval_due(t, last, iv) == t - last >= iv

RunningPcs == {"read_frame", "display", "check_quit", "interval_check",
               "generate", "store", "sleep"}
StoppedPcs == {"cleanup", "demo_finally", "exited"}

\* the loop state of the spec: Idle, Running, Stopped
LoopState == IF pc \in RunningPcs THEN "Running"
             ELSE IF pc \in StoppedPcs THEN "Stopped" ELSE "Idle"

\* CaptionEngine.__init__ as called by each entry point
InitEngine ==
    /\ entry \in {"main", "demo"}
    /\ IF entry = "demo"
       THEN dual_screen = TRUE /\ show_camera = FALSE /\ interval = DemoInterval
       ELSE dual_screen \in BOOLEAN /\ show_camera \in BOOLEAN
            /\ interval \in 1..MaxInterval
    /\ InitDisplay(None, None)
    /\ cv_windows = IF dual_screen
                    THEN {"Camera Feed", "Text Window 1", "Text Window 2"} ELSE {}
    /\ pc = "idle"
    /\ model_loaded = FALSE
    /\ cap = "None"
    /\ ret = "unset"
    /\ caption = <<>>
    /\ last_generated_caption = None
    /\ last_caption_time = 0
    /\ current_time = 0
    /\ now = StartTime
    /\ camera_shown = None
    /\ cm_current_caption = <<>>
    /\ stop_reason = "none"
    /\ exit_status = None
    /\ cleanup_calls = 0
    /\ last_invocation = -1

config_vars == <<entry, dual_screen, show_camera, interval>>

\* `if not engine.initialize(): ...` of both entry points
Initialize ==
    /\ pc = "idle"
    /\ \E model_ok \in BOOLEAN, camera_ok \in BOOLEAN :
          LET r == initialize(model_ok, camera_ok)
          IN  /\ model_loaded' = r.model_loaded
              /\ cap' = r.cap
              /\ IF r.ok
                 THEN pc' = "read_frame" /\ UNCHANGED exit_status
                 ELSE pc' = "exited" /\ exit_status' = Some(exit_on_init_failure(entry))
    /\ UNCHANGED <<config_vars, display_vars, ret, caption, last_generated_caption,
                   last_caption_time, current_time, now, cv_windows, camera_shown,
                   cm_current_caption, stop_reason, cleanup_calls, last_invocation>>

\* the loop leaves `while True` for the finally clause
Stop(reason) ==
    /\ stop_reason' = reason
    /\ pc' = "cleanup"

\* ret, frame = self.camera_manager.read_frame(); if not ret: break
ReadFrame ==
    /\ pc = "read_frame"
    /\ \E ok \in BOOLEAN :
          /\ ret' = IF cap = "None" \/ ~ok THEN "failed" ELSE "ok"
          /\ IF ret' = "failed" THEN Stop("frame")
             ELSE pc' = "display" /\ UNCHANGED stop_reason
    /\ UNCHANGED <<config_vars, display_vars, model_loaded, cap, caption,
                   last_generated_caption, last_caption_time, current_time, now,
                   cv_windows, camera_shown, cm_current_caption, exit_status,
                   cleanup_calls, last_invocation>>

\* display.display_camera_frame(frame, current_caption), or
\* camera_manager.display_frame(frame)
DisplayFrame ==
    /\ pc = "display"
    /\ IF dual_screen
       THEN /\ camera_shown' = Some(IF last_generated_caption = None THEN <<>>
                                    ELSE last_generated_caption[1])
            /\ UNCHANGED cv_windows
       ELSE IF show_window
            THEN /\ camera_shown' = Some(<<>>)
                 /\ cv_windows' = cv_windows \cup {"BLIP Camera Captioning"}
            ELSE UNCHANGED <<camera_shown, cv_windows>>
    /\ pc' = "check_quit"
    /\ UNCHANGED <<config_vars, display_vars, model_loaded, cap, ret, caption,
                   last_generated_caption, last_caption_time, current_time, now,
                   cm_current_caption, stop_reason, exit_status, cleanup_calls,
                   last_invocation>>

\* check_for_quit of the display or of the camera manager; q_pressed is
\* whether cv2.waitKey(1) returns 'q'
\* a variant of check_for_quit that reads the key even without a window
check_for_quit_ignores_window(q_pressed) == q_pressed

check_for_quit(q_pressed) ==
    IF dual_screen THEN q_pressed
    ELSE IF ~show_window THEN FALSE ELSE q_pressed

CheckQuit ==
    /\ pc = "check_quit"
    /\ \E q_pressed \in BOOLEAN :
          IF check_for_quit(q_pressed) THEN Stop("quit")
          ELSE pc' = "interval_check" /\ UNCHANGED stop_reason
    /\ UNCHANGED <<config_vars, display_vars, model_loaded, cap, ret, caption,
                   last_generated_caption, last_caption_time, current_time, now,
                   cv_windows, camera_shown, cm_current_caption, exit_status,
                   cleanup_calls, last_invocation>>

\* current_time = time.time(); if due, generate_caption(frame) is called
IntervalCheck ==
    /\ pc = "interval_check"
    /\ current_time' = now
    /\ IF interval_due(now, last_caption_time, interval)
       THEN pc' = "generate" /\ last_invocation' = now
       ELSE pc' = "sleep" /\ UNCHANGED last_invocation
    /\ UNCHANGED <<config_vars, display_vars, model_loaded, cap, ret, caption,
                   last_generated_caption, last_caption_time, now, cv_windows,
                   camera_shown, cm_current_caption, stop_reason, exit_status,
                   cleanup_calls>>

\* generate_caption(frame) returns, or raises into `except Exception`
Generate ==
    /\ pc = "generate"
    /\ \E outcome \in {"ok", "raise"} :
          LET r == generate_caption(model_loaded, outcome)
          IN  IF r.raised THEN Stop("error") /\ UNCHANGED caption
              ELSE caption' = r.text /\ pc' = "store" /\ UNCHANGED stop_reason
    /\ UNCHANGED <<config_vars, display_vars, model_loaded, cap, ret,
                   last_generated_caption, last_caption_time, current_time, now,
                   cv_windows, camera_shown, cm_current_caption, exit_status,
                   cleanup_calls, last_invocation>>

\* lines 105-114: store the caption, update the display, reset the timer
Store ==
    /\ pc = "store"
    /\ last_generated_caption' = Some(caption)
    /\ IF dual_screen
       THEN add_caption(caption)
            /\ UNCHANGED <<camera_shown, cv_windows, cm_current_caption>>
       ELSE /\ UNCHANGED display_vars
            /\ IF show_window
               THEN /\ cm_current_caption' = IF caption /= <<>> THEN caption
                                             ELSE cm_current_caption
                    /\ camera_shown' = Some(caption)
                    /\ cv_windows' = cv_windows \cup {"BLIP Camera Captioning"}
               ELSE UNCHANGED <<camera_shown, cv_windows, cm_current_caption>>
    /\ last_caption_time' = current_time
    /\ pc' = "sleep"
    /\ UNCHANGED <<config_vars, model_loaded, cap, ret, caption, current_time, now,
                   stop_reason, exit_status, cleanup_calls, last_invocation>>

\* time.sleep(0.03), then the next iteration
Sleep ==
    /\ pc = "sleep"
    /\ pc' = "read_frame"
    /\ UNCHANGED <<config_vars, display_vars, model_loaded, cap, ret, caption,
                   last_generated_caption, last_caption_time, current_time, now,
                   cv_windows, camera_shown, cm_current_caption, stop_reason,
                   exit_status, cleanup_calls, last_invocation>>

\* the clock advances while the loop runs (inference, sleep, display)
TimePasses ==
    /\ pc \in RunningPcs
    /\ now < StartTime + MaxTime
    /\ now' = now + 1
    /\ UNCHANGED <<config_vars, display_vars, pc, model_loaded, cap, ret, caption,
                   last_generated_caption, last_caption_time, current_time,
                   cv_windows, camera_shown, cm_current_caption, stop_reason,
                   exit_status, cleanup_calls, last_invocation>>

\* Ctrl+C while the loop runs: except KeyboardInterrupt
Interrupt ==
    /\ pc \in RunningPcs
    /\ Stop("interrupt")
    /\ UNCHANGED <<config_vars, display_vars, model_loaded, cap, ret, caption,
                   last_generated_caption, last_caption_time, current_time, now,
                   cv_windows, camera_shown, cm_current_caption, exit_status,
                   cleanup_calls, last_invocation>>

\* CaptionEngine.cleanup with DualScreenDisplay.cleanup and CameraManager.release
engine_cleanup ==
    /\ cleanup_calls' = cleanup_calls + 1
    /\ IF dual_screen
       THEN cv_windows' = {} /\ UNCHANGED cap
       ELSE /\ cap' = IF cap /= "None" THEN "released" ELSE cap
            /\ cv_windows' = IF show_window THEN {} ELSE cv_windows

\* the finally clause of run(); main then ends, the demo goes on to its own
Cleanup ==
    /\ pc = "cleanup"
    /\ engine_cleanup
    /\ IF entry = "demo" THEN pc' = "demo_finally" /\ UNCHANGED exit_status
       ELSE pc' = "exited" /\ exit_status' = Some(0)
    /\ UNCHANGED <<config_vars, display_vars, model_loaded, ret, caption,
                   last_generated_caption, last_caption_time, current_time, now,
                   camera_shown, cm_current_caption, stop_reason, last_invocation>>

\* the finally clause of the demo's main(): engine.cleanup()
DemoFinally ==
    /\ pc = "demo_finally"
    /\ engine_cleanup
    /\ pc' = "exited"
    /\ exit_status' = Some(0)
    /\ UNCHANGED <<config_vars, display_vars, model_loaded, ret, caption,
                   last_generated_caption, last_caption_time, current_time, now,
                   camera_shown, cm_current_caption, stop_reason, last_invocation>>

Next ==
    \/ Initialize
    \/ ReadFrame
    \/ DisplayFrame
    \/ CheckQuit
    \/ IntervalCheck
    \/ Generate
    \/ Store
    \/ Sleep
    \/ TimePasses
    \/ Interrupt
    \/ Cleanup
    \/ DemoFinally

Spec == InitEngine /\ [][Next]_vars

(***************************************************************************)
(* Claims about the capture/caption loop (checked under Spec)              *)
(***************************************************************************)
IsErrorText(t) == t = ErrorNotLoaded \/ t = ErrorGenerating(ExceptionText)

\* C4: once a frame read has failed the loop is Stopped (no display, quit
\* poll, captioner invocation or frame read follows) and cleanup is invoked
\* exactly once over the whole execution, whichever entry point drives the
\* engine.
C4_FrameFailureCleansUpOnce ==
    ret = "failed" =>
        /\ LoopState = "Stopped"
        /\ stop_reason = "frame"
        /\ cleanup_calls <= 1
        /\ (pc = "exited" => cleanup_calls = 1)

\* C4 on the main script alone: frame failure, one cleanup, exit.
C4_Witness ==
    /\ entry = "main"
    /\ ret = "failed"
    /\ pc = "exited"
    /\ cleanup_calls = 1

\* C5: every way the loop ends reaches cleanup, and in every configuration
\* cleanup releases the camera opened by initialize and closes every window
\* that was created.
C5_CleanupReleasesAll ==
    /\ (LoopState = "Stopped" /\ stop_reason /= "none" /\ pc /= "cleanup")
          => cleanup_calls >= 1
    /\ (pc = "exited" /\ stop_reason /= "none")
          => (cap = "released" /\ cv_windows = {})

\* C5 on the preview configuration alone: quit from the camera window, the
\* camera released and the window closed.
C5_Witness ==
    /\ ~dual_screen
    /\ show_camera
    /\ stop_reason = "quit"
    /\ pc = "exited"
    /\ cap = "released"
    /\ cv_windows = {}

\* C6: a captioner failure never ends the loop: generate_caption returns an
\* error text instead of raising, the text becomes the last caption and is
\* appended to the caption buffer like any result, and the loop goes on to
\* the next tick.
C6_FailureStep ==
    /\ (pc = "generate" /\ pc' /= "generate" /\ stop_reason' /= "interrupt")
          => (pc' = "store" /\ stop_reason' = "none")
    /\ (pc = "store" /\ IsErrorText(caption) /\ pc' /= "store"
          /\ stop_reason' /= "interrupt")
          => /\ pc' = "sleep"
             /\ stop_reason' = "none"
             /\ last_generated_caption' = Some(caption)
             /\ dual_screen =>
                   /\ history' = Append(history, caption)
                   /\ Len(window1_captions') >= 1
                   /\ Last(window1_captions').text = caption
    /\ (pc = "sleep" /\ pc' /= "sleep" /\ stop_reason' /= "interrupt")
          => pc' = "read_frame"

InitFailed == pc /= "idle" /\ (~model_loaded \/ cap = "unopened")

\* C7: if model loading or camera opening fails in initialize, the loop
\* never runs (no frame read, no captioner invocation), the process exits
\* with a non-zero status under every entry point, and a failed model load
\* leaves the camera unopened.
C7_InitFailureIsFatal ==
    InitFailed =>
        /\ pc = "exited"
        /\ ret = "unset"
        /\ last_invocation = -1
        /\ exit_status /= None
        /\ exit_status /= Some(0)
        /\ (~model_loaded => cap = "None")

\* C7 on the main script alone: the camera does not open, exit status 1.
C7_Witness ==
    /\ entry = "main"
    /\ model_loaded
    /\ cap = "unopened"
    /\ pc = "exited"
    /\ exit_status = Some(1)
    /\ ret = "unset"

\* C8: on a tick that reaches the interval check the captioner is invoked
\* if and only if the time since the last caption is >= interval; its result
\* is stored as the last caption, appended to the caption buffer, and the
\* timer is reset, so an invocation is never less than interval after the
\* one before it.
C8_IntervalStep ==
    /\ (pc = "interval_check" /\ pc' /= "interval_check"
          /\ stop_reason' /= "interrupt")
          => /\ (pc' = "generate") = (now - last_caption_time >= interval)
             /\ pc' \in {"generate", "sleep"}
             /\ (pc' = "generate") = (last_invocation' /= last_invocation)
             /\ pc' = "generate" =>
                   /\ last_invocation' = now
                   /\ (last_invocation = -1 \/ now - last_invocation >= interval)
    /\ (pc = "store" /\ pc' = "sleep")
          => /\ last_generated_caption' = Some(caption)
             /\ last_caption_time' = current_time
             /\ last_caption_time' = last_invocation
             /\ dual_screen =>
                   /\ Len(window1_captions') >= 1
                   /\ Last(window1_captions').text = caption
                   /\ Last(window1_captions').id = Len(history) + 1

C11_PollStep ==
    /\ (pc' = "display" /\ pc /= "display") => (pc = "read_frame" /\ ret' = "ok")
    /\ (pc' = "check_quit" /\ pc /= "check_quit") => pc = "display"
    /\ (pc' = "interval_check" /\ pc /= "interval_check") => pc = "check_quit"
    /\ (pc' = "read_frame" /\ pc /= "read_frame") => pc \in {"idle", "sleep"}
    /\ (stop_reason' = "quit" /\ stop_reason /= "quit")
          => /\ pc = "check_quit"
             /\ pc' = "cleanup"
             /\ last_invocation' = last_invocation
             /\ last_generated_caption' = last_generated_caption
             /\ history' = history
             /\ window1_captions' = window1_captions
             /\ window2_captions' = window2_captions

C11_QuitOnlyWithWindow ==
    /\ stop_reason = "quit" => (LoopState = "Stopped" /\ (dual_screen \/ show_camera))
    /\ (~dual_screen /\ ~show_camera /\ LoopState = "Stopped" /\ stop_reason /= "none")
          => stop_reason \in {"frame", "interrupt"}

C11_CooperativeCancellation == [][C11_PollStep]_vars /\ []C11_QuitOnlyWithWindow

\* C11 witness: quit detected on a tick whose caption was due: the captioner
\* was not invoked and the buffer still holds the one earlier caption.
C11_Witness ==
    /\ stop_reason = "quit"
    /\ dual_screen
    /\ now - last_caption_time >= interval
    /\ last_invocation = last_caption_time
    /\ Len(history) = 1
    /\ Len(window1_captions) = 1

(***************************************************************************)
(* Claims about the chars_per_column option (SpecLayout, where the caption *)
(* lists and the canvas size stay fixed while the option is changed and    *)
(* the windows are rendered again)                                         *)
(***************************************************************************)
\* C12: chars_per_column is inert: for the same caption list and canvas
\* size the glyphs drawn and their positions are the same whether the option
\* is None or any positive integer (a window rendered again after any change
\* of the option receives the identical image), and the number of characters
\* in a column is decided by the canvas bottom margin alone, also when the
\* render's own chars_per_column is smaller.
C12_RenderStep ==
    \A i \in {0, 1} : Rendered(i) => text_image'[i] = text_image[i]

C12_MarginDecides ==
    \A i \in {0, 1} : Rendered(i) =>
        \A c \in 1..Len(text_image[i].columns) :
            LET col == text_image[i].columns[c]
                fit == (window_height - 40) \div (FONT_SIZE + CHAR_SPACING)
            IN  Len(col.glyphs) = Max(0, Min(Len(col.src.text), fit))

C12_OptionInert == [][C12_RenderStep]_vars /\ []C12_MarginDecides

\* C12 witness: window 2 rendered with chars_per_column = 1 (the render's
\* local limit is 1) at height 1440 still shows all 13 characters of
\* "a cat sitting".
C12_Witness ==
    /\ Rendered(1)
    /\ chars_per_column = Some(1)
    /\ column_limit[1] = Some(1)
    /\ window_height = 1440
    /\ Len(text_image[1].columns) = 2
    /\ Len(text_image[1].columns[1].glyphs) = 13

(***************************************************************************)
(* Further claims about the caption buffers (SpecDisplay)                  *)
(***************************************************************************)
\* C13: after n add_caption calls (capacity >= 1) the secondary buffer
\* followed by the primary buffer is exactly the last min(n, 2 * capacity)
\* captions added, one contiguous run in insertion order (every secondary
\* entry older than every primary entry), and the secondary is non-empty
\* only when the primary holds exactly capacity entries.
C13_ContiguousRun ==
    window_capacity >= 1 =>
        LET n == Len(history)
            k == Min(n, 2 * window_capacity)
            both == window2_captions \o window1_captions
        IN  /\ Len(both) = k
            /\ Texts(both) = SubSeq(history, n - k + 1, n)
            /\ \A i \in 1..Len(both) : both[i].id = n - k + i
            /\ \A a \in Ids(window2_captions), b \in Ids(window1_captions) : a < b
            /\ window2_captions /= <<>> => Len(window1_captions) = window_capacity

\* C13 witness: capacity 2 after five adds: the secondary holds the 2nd and
\* 3rd captions, the primary the 4th and 5th, the 1st is gone.
C13_Witness ==
    /\ window_capacity = 2
    /\ Len(history) = 5
    /\ [i \in 1..Len(window2_captions) |-> window2_captions[i].id] = <<2, 3>>
    /\ [i \in 1..Len(window1_captions) |-> window1_captions[i].id] = <<4, 5>>

\* C14: the capacity computed on the first add_caption equals maxColumns =
\* floor((width - 40) / columnWidth), and once positive it never changes; so
\* in every render triggered by add_caption each caption held in either
\* buffer has its own column: neither the visible-suffix cut nor the x < 20
\* stop discards a buffered caption.
C14_CapacityStep ==
    /\ history' /= history =>
          window_capacity' = (window_width - 40) \div COLUMN_WIDTH
    /\ window_capacity > 0 => window_capacity' = window_capacity

C14_EveryCaptionDrawn ==
    history /= <<>> =>
        /\ window_capacity = (window_width - 40) \div COLUMN_WIDTH
        /\ \A i \in {0, 1} :
              LET buf == BufferOf(i)
                  cols == text_image[i].columns
              IN  /\ Rendered(i)
                  /\ Len(cols) = Len(buf)
                  /\ \A k \in 1..Len(cols) :
                        /\ cols[k].src = buf[Len(buf) + 1 - k]
                        /\ cols[k].x >= 20

C14_CapacityIsMaxColumns == [][C14_CapacityStep]_vars /\ []C14_EveryCaptionDrawn

\* C14 witness: width 115 (three columns): both buffers full after six adds
\* and each window shows three columns, the leftmost at x = 45.
C14_Witness ==
    /\ window_width = 115
    /\ window_capacity = 3
    /\ Len(history) = 6
    /\ Len(window1_captions) = 3
    /\ Len(window2_captions) = 3
    /\ Len(text_image[0].columns) = 3
    /\ Len(text_image[1].columns) = 3
    /\ text_image[1].columns[3].x = 45

====
